---- MODULE Spec2Model ----
(***************************************************************************)
(* State-machine model of the option-replay simulation pipeline:           *)
(* date matching, the entry-date scheduler, the strategy planner and the   *)
(* trade-execution engine (Run / simCloseTrade / checkExits).              *)
(*                                                                         *)
(* Time.  A time.Time is an integer number of ticks; TicksPerDay ticks     *)
(* make one calendar day, so t \div TicksPerDay is the calendar date       *)
(* (Format("2006-01-02")) and AddDate(0,0,n) adds n*TicksPerDay.  The zero *)
(* time.Time is 0; every real instant is > 0.  Day 1 is 1 January of a     *)
(* non-leap year that starts on a Wednesday (2025), followed by another    *)
(* non-leap year.  All instants are in one location (UTC).                 *)
(*                                                                         *)
(* Money.  float64 amounts are integers in units of 1/One dollars; the     *)
(* comparisons of the code are evaluated exactly (no rounding error).      *)
(***************************************************************************)
EXTENDS Integers, Sequences, FiniteSets, TLC

VARIABLES
    pc,          \* position of the operation in progress
    now,         \* time.Now() as read by the execution in progress
    bars,        \* []data.Bar returned by the provider: <<[Date, Close]>>
    entry,       \* EntryRule
    expiryList,  \* answer of GetRelevantExpiries: [ok, dates]
    earnings,    \* answer of GetEarningsDates: [ok, dates]
    strategy,    \* StrategySpec
    exitCfg,     \* ExitSpec (NoValue = rule absent)
    prov,        \* the price curve served by the provider
    sched,       \* outcome of the scheduler: [dates, err]
    di,          \* index in sched.dates of the date being processed
    id,          \* next trade id
    trades,      \* trades appended so far in this execution
    tr,          \* the trade under simulation (or Nil)
    bi,          \* index of the bar the simulation loop is at
    total,       \* premium computed for the last bar processed (if any)
    result,      \* outcome of Run: [trades, err] (or Nil)
    prior,       \* outcome of the previous execution of Run (or Nil)
    skipped,     \* scheduled dates skipped in this execution
    plan,        \* outcome of the last PlanStrategy call (or Nil)
    call,        \* arguments of the library function called on its own (or Nil)
    ret          \* what that call returned (or Nil)

vars == <<pc, now, bars, entry, expiryList, earnings, strategy, exitCfg, prov,
          sched, di, id, trades, tr, bi, total, result, prior, skipped, plan,
          call, ret>>

Nil == [nil |-> TRUE]

(***************************************************************************)
(* Bounds of the model                                                     *)
(***************************************************************************)
TicksPerDay == 2      \* instants distinguished within one calendar day
FirstDay    == 30     \* first calendar day of the modelled window (30 Jan)
NumDays     == 4      \* calendar days in the modelled window
MaxBars     == 3      \* bars returned by the provider

ZeroTime == 0
One      == 1000      \* the amount 1.0

(***************************************************************************)
(* time.Time helpers                                                       *)
(***************************************************************************)
Ts(day, tick)  == day * TicksPerDay + tick
DayOf(t)       == t \div TicksPerDay
AddDays(t, n)  == t + n * TicksPerDay
IsZero(t)      == t = ZeroTime
AddYears(t, n) == t + n * 365 * TicksPerDay

MonthLen == <<31, 28, 31, 30, 31, 30, 31, 31, 30, 31, 30, 31>>

RECURSIVE DaysBeforeMonth(_)
DaysBeforeMonth(m) == IF m = 1 THEN 0 ELSE DaysBeforeMonth(m - 1) + MonthLen[m - 1]

YearOf(t)    == (DayOf(t) - 1) \div 365
DayOfYear(t) == ((DayOf(t) - 1) % 365) + 1
\* time.Date(y, m, dayNum, 0, 0, 0, 0, UTC), for 1 <= dayNum <= 31;
\* a day number past the end of the month normalises into the next month
DateYMD(y, m, dayNum) == Ts(y * 365 + DaysBeforeMonth(m) + dayNum, 0)
\* time.Weekday: Sunday = 0 ... Saturday = 6; day 1 is a Wednesday
Weekday(t) == (DayOf(t) + 2) % 7

(***************************************************************************)
(* Sequence helpers                                                        *)
(***************************************************************************)
Range(s)     == {s[i] : i \in DOMAIN s}
SetMin(S)    == CHOOSE x \in S : \A y \in S : x <= y
SetMax(S)    == CHOOSE x \in S : \A y \in S : x >= y
Count(s, v)  == Cardinality({i \in DOMAIN s : s[i] = v})
Repeat(v, n) == [i \in 1..n |-> v]
Dist(t, d)   == IF t >= d THEN t - d ELSE d - t

RECURSIVE SortFrom(_, _)
SortFrom(s, vals) ==
    IF vals = {} THEN <<>>
    ELSE LET m == SetMin(vals)
         IN  Repeat(m, Count(s, m)) \o SortFrom(s, vals \ {m})

\* the list left in the order it was given
SortTimes_AsGiven(s) == s

\* sort.Slice(s, func(i, j) { return s[i].Before(s[j]) })
SortTimes(s) == SortFrom(s, Range(s))

(***************************************************************************)
(* Date matching                                                           *)
(***************************************************************************)
MatchExact   == "exact"
MatchHigher  == "higher"
MatchLower   == "lower"
MatchNearest == "nearest"

\* the scan of findBarDate over the sorted dates, from index i on
RECURSIVE ScanDates(_, _, _, _)
ScanDates(d, dates, i, acc) ==
    IF i > Len(dates) THEN acc
    ELSE LET dt == dates[i]
             a1 == IF dt = d THEN [acc EXCEPT !.exact = dt] ELSE acc
             a2 == IF dt < d THEN [a1 EXCEPT !.lower = dt] ELSE a1
             a3 == IF dt > d /\ IsZero(a2.higher)
                   THEN [a2 EXCEPT !.higher = dt] ELSE a2
         IN  ScanDates(d, dates, i + 1, a3)

findBarDate(d, dates, mode0) ==
    LET mode == IF mode0 \in {MatchExact, MatchHigher, MatchLower, MatchNearest}
                THEN mode0 ELSE MatchNearest
        r == ScanDates(d, SortTimes(dates), 1,
                       [exact |-> ZeroTime, lower |-> ZeroTime, higher |-> ZeroTime])
    IN  CASE mode = MatchExact  -> r.exact
          [] mode = MatchLower  -> r.lower
          [] mode = MatchHigher -> r.higher
          [] OTHER ->
               IF ~IsZero(r.exact) THEN r.exact
               ELSE IF ~IsZero(r.lower) /\ ~IsZero(r.higher)
                    THEN (IF d - r.lower <= r.higher - d THEN r.lower ELSE r.higher)
               ELSE IF ~IsZero(r.lower) THEN r.lower
               ELSE IF ~IsZero(r.higher) THEN r.higher
               ELSE ZeroTime

\* nearest with the later candidate preferred when both are equally far
MatchBarDate_TieLater(d, dates, mode0) ==
    LET n  == findBarDate(d, dates, mode0)
        lo == findBarDate(d, dates, MatchLower)
        hi == findBarDate(d, dates, MatchHigher)
    IN  IF n = lo /\ ~IsZero(lo) /\ ~IsZero(hi) /\ d - lo = hi - d THEN hi ELSE n

\* nearest without the two branches for candidates on one side only
MatchBarDate_BothSidesOnly(d, dates, mode0) ==
    LET n  == findBarDate(d, dates, mode0)
        lo == findBarDate(d, dates, MatchLower)
        hi == findBarDate(d, dates, MatchHigher)
    IN  IF mode0 \notin {MatchExact, MatchHigher, MatchLower} /\ n # d
           /\ (IsZero(lo) \/ IsZero(hi))
        THEN ZeroTime ELSE n

\* data.MatchBarDate: the copy of findBarDate used by the strategy planner
MatchBarDate(d, dates, mode0) ==
    LET mode == IF mode0 \in {MatchExact, MatchHigher, MatchLower, MatchNearest}
                THEN mode0 ELSE MatchNearest
        r == ScanDates(d, SortTimes(dates), 1,
                       [exact |-> ZeroTime, lower |-> ZeroTime, higher |-> ZeroTime])
    IN  CASE mode = MatchExact  -> r.exact
          [] mode = MatchLower  -> r.lower
          [] mode = MatchHigher -> r.higher
          [] OTHER ->
               IF ~IsZero(r.exact) THEN r.exact
               ELSE IF ~IsZero(r.lower) /\ ~IsZero(r.higher)
                    THEN (IF d - r.lower <= r.higher - d THEN r.lower ELSE r.higher)
               ELSE IF ~IsZero(r.lower) THEN r.lower
               ELSE IF ~IsZero(r.higher) THEN r.higher
               ELSE ZeroTime

intSliceContains(list, v) == \E i \in DOMAIN list : list[i] = v

(***************************************************************************)
(* Scheduler                                                               *)
(***************************************************************************)
NonZero(t) == ~IsZero(t)

\* the matches appended without the IsZero test
MatchAll_KeepUnmatched(cands, barDates, policy) ==
    [i \in DOMAIN cands |-> findBarDate(cands[i], barDates, policy)]

\* candidates matched against the bar dates, zero (unmatched) results dropped
MatchAll(cands, barDates, policy) ==
    SelectSeq([i \in DOMAIN cands |-> findBarDate(cands[i], barDates, policy)],
              NonZero)

\* every calendar day from start to end inclusive, at start's time of day
DailyCandidates(start, end) ==
    [i \in 1..((end - start) \div TicksPerDay + 1) |-> AddDays(start, i - 1)]

\* the offset candidates without the range test
OffsetCandidates_NoRangeTest(src, offset, start, end) ==
    [i \in DOMAIN src |-> AddDays(src[i], offset)]

\* e.AddDate(0, 0, offset) for each source date, kept when inside [start, end]
OffsetCandidates(src, offset, start, end) ==
    LET InRange(c) == ~(c < start \/ c > end)
    IN  SelectSeq([i \in DOMAIN src |-> AddDays(src[i], offset)], InRange)

\* the candidates of one month, in NthList order
MonthCandidates(y, m, nthList, start, end) ==
    LET Valid(k) == /\ ~(nthList[k] < 1 \/ nthList[k] > 31)
                    /\ nthList[k] <= MonthLen[m]
                    /\ ~(DateYMD(y, m, nthList[k]) < start
                         \/ DateYMD(y, m, nthList[k]) > end)
        idx == SelectSeq([k \in DOMAIN nthList |-> k], Valid)
    IN  [k \in DOMAIN idx |-> DateYMD(y, m, nthList[idx[k]])]

RECURSIVE MonthDayCandidates(_, _, _, _, _, _)
MonthDayCandidates(y, m, yEnd, nthList, start, end) ==
    IF y > yEnd THEN <<>>
    ELSE LET monthStart == DateYMD(y, m, 1)
             monthEnd   == DateYMD(y, m, MonthLen[m])
             here == IF monthEnd < start \/ monthStart > end THEN <<>>
                     ELSE MonthCandidates(y, m, nthList, start, end)
             ny == IF m = 12 THEN y + 1 ELSE y
             nm == IF m = 12 THEN 1 ELSE m + 1
         IN  here \o MonthDayCandidates(ny, nm, yEnd, nthList, start, end)

WeekdayCandidates(start, end, nthList) ==
    LET OnList(c) == intSliceContains(nthList, Weekday(c))
    IN  SelectSeq(DailyCandidates(start, end), OnList)

\* the "seen" loop: keep the first entry of each calendar date
UniqueByDay(s) ==
    LET days   == {DayOf(s[i]) : i \in DOMAIN s}
        firsts == {SetMin({i \in DOMAIN s : DayOf(s[i]) = v}) : v \in days}
    IN  [k \in 1..Cardinality(firsts) |->
            s[CHOOSE i \in firsts : Cardinality({j \in firsts : j < i}) = k - 1]]

\* the sort without the "seen" loop
SortUnique_NoDedup(out) == SortTimes(out)

SortUnique(out) == UniqueByDay(SortTimes(out))

SchedOK(dates) == [dates |-> dates, err |-> ""]
SchedErr(e)    == [dates |-> <<>>, err |-> e]

ResolveScheduleDates(rule, barSeq, expiries, earn, clock) ==
    LET barDates == [i \in DOMAIN barSeq |-> barSeq[i].Date]
        start == IF IsZero(rule.Start) THEN AddYears(clock, -1) ELSE rule.Start
        end   == IF IsZero(rule.End) THEN clock ELSE rule.End
        pol   == rule.DateMatchType
    IN  IF start > end THEN SchedErr("invalid date range")
        ELSE CASE rule.Mode = "earnings_offset" ->
                    IF rule.Underlying = "" THEN SchedErr("requires underlying")
                    ELSE IF ~earn.ok THEN SchedErr("fetch earnings dates error")
                    ELSE IF Len(rule.NthList) = 0 THEN SchedErr("panic: index out of range")
                    ELSE SchedOK(SortUnique(MatchAll(
                             OffsetCandidates(earn.dates, rule.NthList[1], start, end),
                             barDates, pol)))
               [] rule.Mode = "expiry_offset" ->
                    IF Len(rule.NthList) = 0 THEN SchedErr("panic: index out of range")
                    ELSE SchedOK(SortUnique(MatchAll(
                             OffsetCandidates(expiries, rule.NthList[1], start, end),
                             barDates, pol)))
               [] rule.Mode = "nth_month_day" ->
                    IF Len(rule.NthList) = 0 THEN SchedErr("nth_month_day mode requires NthList")
                    ELSE SchedOK(SortUnique(MatchAll(
                             MonthDayCandidates(YearOf(start), 1, YearOf(end),
                                                rule.NthList, start, end),
                             barDates, pol)))
               [] rule.Mode = "nth_weekday" ->
                    IF Len(rule.NthList) = 0 THEN SchedErr("nth_weekday mode requires NthList")
                    ELSE SchedOK(SortUnique(MatchAll(
                             WeekdayCandidates(start, end, rule.NthList),
                             barDates, pol)))
               [] OTHER ->
                    SchedOK(SortUnique(MatchAll(DailyCandidates(start, end),
                                                barDates, pol)))

(***************************************************************************)
(* float64 amounts.  NaN is the IEEE not-a-number: it propagates through   *)
(* arithmetic and every ordered comparison with it is false.               *)
(***************************************************************************)
NaN == -2000000000

IsNaN(x)   == x = NaN
FAdd(a, b) == IF IsNaN(a) \/ IsNaN(b) THEN NaN ELSE a + b
FSub(a, b) == IF IsNaN(a) \/ IsNaN(b) THEN NaN ELSE a - b
FMul(a, b) == IF IsNaN(a) \/ IsNaN(b) THEN NaN ELSE a * b
FGt(a, b)  == ~IsNaN(a) /\ ~IsNaN(b) /\ a > b
FLt(a, b)  == ~IsNaN(a) /\ ~IsNaN(b) /\ a < b
FGe(a, b)  == ~IsNaN(a) /\ ~IsNaN(b) /\ a >= b
FLe(a, b)  == ~IsNaN(a) /\ ~IsNaN(b) /\ a <= b
Abs(x)     == IF IsNaN(x) THEN NaN ELSE IF x < 0 THEN -x ELSE x
Max0(x)    == IF x > 0 THEN x ELSE 0

NoValue == [set |-> FALSE, v |-> 0]
Some(x) == [set |-> TRUE, v |-> x]

(***************************************************************************)
(* Market data provider.  The provider is a function of its arguments: the *)
(* variable prov names the price curve it serves, by option type and       *)
(* as-of calendar date; an entry of 0 is "no market data" (an error).      *)
(***************************************************************************)
StrikeStep == One     \* strike increment of the provider (1.0)

NoData == 0

GetOptionPrice(curve, strike, expiration, optType, asOf) ==
    LET k == DayOf(asOf) - FirstDay + 1
        \* OptionSymbolFromParts: a put symbol for "put", a call symbol otherwise
        c == IF optType = "put" THEN curve.put ELSE curve.call
        p == IF k \in DOMAIN c THEN c[k] ELSE NoData
    IN  IF p = NoData THEN [ok |-> FALSE, p |-> 0] ELSE [ok |-> TRUE, p |-> p]

\* math.Round(asOfPrice/interval) * interval, for a non-negative price
RoundToNearestStrike(x) == ((x + StrikeStep \div 2) \div StrikeStep) * StrikeStep

(***************************************************************************)
(* Pricing                                                                 *)
(***************************************************************************)
TimeValue == One \div 4   \* surrogate time value per tick to expiry

\* AnnualizedVolatility, by the kind of number it returns
AnnualizedVolatility(closes) ==
    IF Len(closes) < 2 THEN "positive"          \* 0.30
    ELSE IF Len(closes) = 2 THEN "nan"          \* sqrt(0/0)
    ELSE IF \A i \in 2..(Len(closes) - 1) :
               (closes[i + 1] \div One) * (closes[i - 1] \div One)
                   = (closes[i] \div One) * (closes[i] \div One)
         THEN "zero"                            \* all log returns equal
         ELSE "positive"

\* BlackScholesPrice: the degenerate branch is the code's; the closed form
\* is replaced by a positive surrogate that grows with the time to expiry
BlackScholesPrice(isCall, S, K, T, sigma) ==
    IF T <= 0 \/ sigma \in {"zero", "negative"} THEN Max0(S - K)
    ELSE IF sigma = "nan" THEN NaN
    ELSE (IF isCall THEN Max0(S - K) ELSE Max0(K - S)) + T * TimeValue

(***************************************************************************)
(* Strategy planner                                                        *)
(***************************************************************************)
ErrInvalidStrikeExpression == "invalid strike expression"
ErrLegIndexOutOfRange      == "leg index out of range"
ErrPremiumFetch            == "option price unavailable"

TradeLeg(spec, strike, exp, prem) ==
    [Spec |-> spec, Strike |-> strike, Expiration |-> exp,
     OpenPremium |-> prem, ClosePremium |-> 0]

ResolveExpiration(openDate, offset, expiries, dateMatchType) ==
    MatchBarDate(AddDays(openDate, offset), expiries, dateMatchType)

\* math.Round((asOfPrice+abs)*100) / 100
resolveATMOffset(abs, asOfPrice) ==
    LET cent == One \div 100
    IN  ((asOfPrice + abs + cent \div 2) \div cent) * cent

\* "{LEGn.FIELD}+add"; the pattern \{LEG(\d)\.(STRIKE|PREMIUM)\} matches n only
\* when n is written with one digit
evaluateLegExpression(rule, legs) ==
    LET idx == rule.n - 1
    IN  IF rule.n \notin 0..9
        THEN [v |-> 0, err |-> ErrInvalidStrikeExpression]
        ELSE IF idx < 0 \/ idx >= Len(legs)
        THEN [v |-> 0, err |-> ErrLegIndexOutOfRange]
        ELSE [v |-> (IF rule.field = "STRIKE" THEN legs[idx + 1].Strike
                     ELSE legs[idx + 1].OpenPremium) + rule.add,
              err |-> ""]

ResolveStrike(rule, asOfPrice, legs) ==
    CASE rule.kind = "ATM" ->
           [strike |-> RoundToNearestStrike(asOfPrice), err |-> ""]
      [] rule.kind = "ATM:" ->
           [strike |-> RoundToNearestStrike(resolveATMOffset(rule.add, asOfPrice)),
            err |-> ""]
      [] rule.kind = "{LEG" ->
           LET r == evaluateLegExpression(rule, legs)
           IN  IF r.err # "" THEN [strike |-> 0, err |-> r.err]
               ELSE [strike |-> RoundToNearestStrike(r.v), err |-> ""]
      [] OTHER -> [strike |-> 0, err |-> ErrInvalidStrikeExpression]

\* the leg loop of PlanStrategy from leg i on
RECURSIVE PlanLegs(_, _, _, _, _, _, _)
PlanLegs(strat, openDateTime, openPrice, expiries, curve, i, legs) ==
    IF i > Len(strat.Legs) THEN [legs |-> legs, err |-> ""]
    ELSE LET legSpec == strat.Legs[i]
             offset  == IF legSpec.Expiration # 0 THEN legSpec.Expiration
                        ELSE strat.DaysToExpiry
             expiryDate == ResolveExpiration(openDateTime, offset, expiries,
                                             strat.DateMatchType)
             sr == ResolveStrike(legSpec.StrikeRule, openPrice, legs)
             a  == GetOptionPrice(curve, sr.strike, expiryDate, legSpec.OptionType,
                                  openDateTime)
         IN  IF sr.err # "" THEN [legs |-> <<>>, err |-> sr.err]
             ELSE IF ~a.ok THEN [legs |-> <<>>, err |-> ErrPremiumFetch]
             ELSE PlanLegs(strat, openDateTime, openPrice, expiries, curve, i + 1,
                           Append(legs, TradeLeg(legSpec, sr.strike, expiryDate, a.p)))

PlanStrategy(strat, openDateTime, openPrice, expiries, curve) ==
    PlanLegs(strat, openDateTime, openPrice, expiries, curve, 1, <<>>)

(***************************************************************************)
(* Execution engine                                                        *)
(***************************************************************************)
Sign(side)     == IF side = "sell" THEN -1 ELSE 1
IsCall(optType) == optType = "call"

NoTag       == [kind |-> "", arg |-> 0]
Tag(k, arg) == [kind |-> k, arg |-> arg]

\* the loop adding every leg's premium as if the leg were bought
RECURSIVE OpenPremiumFrom_Unsigned(_, _, _, _, _, _, _)
OpenPremiumFrom_Unsigned(legs, i, dt, openPrice, sigma, curve, acc) ==
    IF i > Len(legs) THEN acc
    ELSE LET leg == legs[i]
             a   == GetOptionPrice(curve, leg.Strike, leg.Expiration,
                                   leg.Spec.OptionType, dt)
             p   == IF ~a.ok
                    THEN BlackScholesPrice(IsCall(leg.Spec.OptionType), openPrice,
                                           leg.Strike, leg.Expiration - dt, sigma)
                    ELSE a.p
         IN  OpenPremiumFrom_Unsigned(legs, i + 1, dt, openPrice, sigma, curve,
                                      FAdd(acc, FMul(p, leg.Spec.Qty * 100)))

\* the price-legs loop of Run from leg i on
RECURSIVE OpenPremiumFrom(_, _, _, _, _, _, _)
OpenPremiumFrom(legs, i, dt, openPrice, sigma, curve, acc) ==
    IF i > Len(legs) THEN acc
    ELSE LET leg == legs[i]
             a   == GetOptionPrice(curve, leg.Strike, leg.Expiration,
                                   leg.Spec.OptionType, dt)
             p   == IF ~a.ok
                    THEN BlackScholesPrice(IsCall(leg.Spec.OptionType), openPrice,
                                           leg.Strike, leg.Expiration - dt, sigma)
                    ELSE a.p
         IN  OpenPremiumFrom(legs, i + 1, dt, openPrice, sigma, curve,
                             FAdd(acc, FMul(p, Sign(leg.Spec.Side) * leg.Spec.Qty * 100)))

\* the loop taking whatever price the provider returns without error
RECURSIVE BarTotalFrom_AnyPrice(_, _, _, _, _, _)
BarTotalFrom_AnyPrice(legs, i, b, sigma, curve, acc) ==
    IF i > Len(legs) THEN acc
    ELSE LET leg  == legs[i]
             mult == Sign(leg.Spec.Side) * leg.Spec.Qty * 100
             a    == GetOptionPrice(curve, leg.Strike, leg.Expiration,
                                    leg.Spec.OptionType, b.Date)
             p    == IF ~(b.Date < leg.Expiration)
                     THEN (IF IsCall(leg.Spec.OptionType) THEN Max0(b.Close - leg.Strike)
                           ELSE Max0(leg.Strike - b.Close))
                     ELSE IF ~a.ok
                     THEN BlackScholesPrice(IsCall(leg.Spec.OptionType), b.Close,
                                            leg.Strike, leg.Expiration - b.Date, sigma)
                     ELSE a.p
         IN  BarTotalFrom_AnyPrice(legs, i + 1, b, sigma, curve, FAdd(acc, FMul(p, mult)))

\* the compute-premium loop of simCloseTrade for bar b, from leg i on
RECURSIVE BarTotalFrom(_, _, _, _, _, _)
BarTotalFrom(legs, i, b, sigma, curve, acc) ==
    IF i > Len(legs) THEN acc
    ELSE LET leg  == legs[i]
             mult == Sign(leg.Spec.Side) * leg.Spec.Qty * 100
         IN  IF ~(b.Date < leg.Expiration)
             THEN LET intr == IF IsCall(leg.Spec.OptionType)
                              THEN Max0(b.Close - leg.Strike)
                              ELSE Max0(leg.Strike - b.Close)
                  IN  BarTotalFrom(legs, i + 1, b, sigma, curve, FAdd(acc, intr * mult))
             ELSE LET a == GetOptionPrice(curve, leg.Strike, leg.Expiration,
                                          leg.Spec.OptionType, b.Date)
                      p == IF ~a.ok \/ a.p <= 0
                           THEN BlackScholesPrice(IsCall(leg.Spec.OptionType), b.Close,
                                                  leg.Strike, leg.Expiration - b.Date,
                                                  sigma)
                           ELSE a.p
                  IN  BarTotalFrom(legs, i + 1, b, sigma, curve, FAdd(acc, FMul(p, mult)))

\* changePct > pct: a change of exactly the target does not count
ChangePctGe_Strict(open, curr, pct) ==
    FGt(FMul(FSub(curr, open), 100), FMul(IF Abs(open) = 0 THEN One ELSE Abs(open), pct))

\* the change taken as a percentage of max(|open|, 1.0)
ChangePctGe_MaxBase(open, curr, pct) ==
    FGe(FMul(FSub(curr, open), 100), FMul(IF Abs(open) < One THEN One ELSE Abs(open), pct))

\* changePct >= pct, with changePct = change / base * 100 and base > 0
ChangePctGe(open, curr, pct) ==
    LET change == FSub(curr, open)
        base   == IF Abs(open) = 0 THEN One ELSE Abs(open)
    IN  FGe(FMul(change, 100), FMul(base, pct))

ChangePctLe(open, curr, pct) ==
    LET change == FSub(curr, open)
        base   == IF Abs(open) = 0 THEN One ELSE Abs(open)
    IN  FLe(FMul(change, 100), FMul(base, pct))

\* int(math.Floor(bar.Date.Sub(tr.OpenDateTime).Hours() / 24))
DaysInTrade(t, bar) == (bar.Date - t.OpenDateTime) \div TicksPerDay

\* int(math.Ceil(leg.Expiration.Sub(bar.Date).Hours() / 24.0))
DaysToExpiry(leg, bar) == -((bar.Date - leg.Expiration) \div TicksPerDay)

MaxInt32 == 2147483647

\* minDays left at its initial value
MinDaysToExpiry_Initial(t, bar) == MaxInt32

MinDaysToExpiry(t, bar) ==
    IF Len(t.Legs) = 0 THEN MaxInt32
    ELSE SetMin({DaysToExpiry(t.Legs[i], bar) : i \in DOMAIN t.Legs})

\* the stop-loss test placed ahead of the profit-target test
checkExits_StopLossFirst(t, currPremium, bar, ex) ==
    IF /\ ex.StopLossPct.set
       /\ ChangePctLe(t.OpenPremium, currPremium, -ex.StopLossPct.v)
    THEN Tag("stop_loss", ex.StopLossPct.v)
    ELSE IF /\ ex.ProfitTargetPct.set
            /\ ex.ProfitTargetPct.v >= 0
            /\ ChangePctGe(t.OpenPremium, currPremium, ex.ProfitTargetPct.v)
    THEN Tag("profit_target", ex.ProfitTargetPct.v)
    ELSE IF /\ ex.UnderlyingMovePx.set
            /\ Abs(bar.Close - t.UnderlyingAtOpen) >= ex.UnderlyingMovePx.v
    THEN Tag("underlying_move", ex.UnderlyingMovePx.v)
    ELSE IF /\ ex.MaxDaysInTrade.set
            /\ DaysInTrade(t, bar) >= ex.MaxDaysInTrade.v
    THEN Tag("max_days", ex.MaxDaysInTrade.v)
    ELSE IF /\ ex.ExitByDaysToExpiry.set
            /\ MinDaysToExpiry(t, bar) <= ex.ExitByDaysToExpiry.v
    THEN Tag("exit_days_before_expiry", ex.ExitByDaysToExpiry.v)
    ELSE NoTag

checkExits(t, currPremium, bar, ex) ==
    IF /\ ex.ProfitTargetPct.set
       /\ ex.ProfitTargetPct.v >= 0
       /\ ChangePctGe(t.OpenPremium, currPremium, ex.ProfitTargetPct.v)
    THEN Tag("profit_target", ex.ProfitTargetPct.v)
    ELSE IF /\ ex.StopLossPct.set
            /\ ChangePctLe(t.OpenPremium, currPremium, -ex.StopLossPct.v)
    THEN Tag("stop_loss", ex.StopLossPct.v)
    ELSE IF /\ ex.UnderlyingMovePx.set
            /\ Abs(bar.Close - t.UnderlyingAtOpen) >= ex.UnderlyingMovePx.v
    THEN Tag("underlying_move", ex.UnderlyingMovePx.v)
    ELSE IF /\ ex.MaxDaysInTrade.set
            /\ DaysInTrade(t, bar) >= ex.MaxDaysInTrade.v
    THEN Tag("max_days", ex.MaxDaysInTrade.v)
    ELSE IF /\ ex.ExitByDaysToExpiry.set
            /\ MinDaysToExpiry(t, bar) <= ex.ExitByDaysToExpiry.v
    THEN Tag("exit_days_before_expiry", ex.ExitByDaysToExpiry.v)
    ELSE NoTag

\* sort.Search(n, f): binary search for the first index (0-based) with f true
RECURSIVE SearchFrom(_, _, _, _)
SearchFrom(i, j, barSeq, openDateTime) ==
    IF ~(i < j) THEN i
    ELSE LET h == (i + j) \div 2
         IN  IF barSeq[h + 1].Date < openDateTime
             THEN SearchFrom(h + 1, j, barSeq, openDateTime)
             ELSE SearchFrom(i, h, barSeq, openDateTime)

\* the simulation started at the head of the list
StartIndex_Head(barSeq, openDateTime) == 0

StartIndex(barSeq, openDateTime) == SearchFrom(0, Len(barSeq), barSeq, openDateTime)

\* barMap[k] = b for every bar in order: the last bar of a calendar date wins
BarOfDay(barSeq, day) ==
    LET S == {i \in DOMAIN barSeq : DayOf(barSeq[i].Date) = day}
    IN  IF S = {} THEN [ok |-> FALSE, bar |-> [Date |-> ZeroTime, Close |-> 0]]
        ELSE [ok |-> TRUE, bar |-> barSeq[SetMax(S)]]

extractCloses(barSeq) == [i \in DOMAIN barSeq |-> barSeq[i].Close]

NewTrade(tid, dt, openPrice, legs, openPremium) ==
    [ID |-> tid, OpenDateTime |-> dt, CloseDateTime |-> NoValue,
     UnderlyingAtOpen |-> openPrice, UnderlyingAtClose |-> 0, Legs |-> legs,
     OpenPremium |-> openPremium, ClosePremium |-> 0,
     HighPremium |-> openPremium, LowPremium |-> openPremium, ClosedBy |-> NoTag]

\* the closing assignments without the one to ClosedBy
CloseTrade_NoTag(t, premium, underlying, at, tag) ==
    [t EXCEPT !.ClosePremium = premium, !.UnderlyingAtClose = underlying,
              !.CloseDateTime = Some(at)]

CloseTrade(t, premium, underlying, at, tag) ==
    [t EXCEPT !.ClosePremium = premium, !.UnderlyingAtClose = underlying,
              !.CloseDateTime = Some(at), !.ClosedBy = tag]

\* sort.Slice(trades, func(i, j) { return trades[i].ID < trades[j].ID })
SortByID(ts) ==
    LET ids == SortTimes([i \in DOMAIN ts |-> ts[i].ID])
    IN  [k \in DOMAIN ts |-> ts[CHOOSE i \in DOMAIN ts : ts[i].ID = ids[k]]]

(***************************************************************************)
(* Inputs                                                                  *)
(***************************************************************************)
LastDay    == FirstDay + NumDays - 1
WindowDays == FirstDay..LastDay
NowA       == Ts(365 + FirstDay + 1, 1)

RECURSIVE SeqOfSet(_)
SeqOfSet(S) == IF S = {} THEN <<>>
               ELSE <<SetMin(S)>> \o SeqOfSet(S \ {SetMin(S)})

CloseAt(day, profile) ==
    IF profile = "flat" THEN 100 * One ELSE (100 + 2 * (day - FirstDay)) * One

\* daily bars, ascending by date, one per calendar date
DailyBars(days, profile) ==
    LET ds == SeqOfSet(days)
    IN  [i \in DOMAIN ds |-> [Date |-> Ts(ds[i], 0), Close |-> CloseAt(ds[i], profile)]]

BarDaySets ==
    {{d \in WindowDays : d < FirstDay + MaxBars - 1},
     {d \in WindowDays : d < FirstDay + MaxBars},
     {d \in WindowDays : d # FirstDay + 1 /\ d <= FirstDay + MaxBars}}

Reverse(q) == [i \in DOMAIN q |-> q[Len(q) + 1 - i]]

\* ascending bar lists, and one list the provider returns newest first
BarChoices ==
    {DailyBars(S, pr) : S \in BarDaySets, pr \in {"flat", "up"}}
        \cup {Reverse(DailyBars({d \in WindowDays : d < FirstDay + MaxBars}, "up"))}

Rule(mode, start, end, nth, pol) ==
    [Mode |-> mode, Start |-> start, End |-> end, NthList |-> nth,
     DateMatchType |-> pol, Underlying |-> "SPY"]

EntryChoices ==
    {Rule("daily_time", ZeroTime, ZeroTime, <<>>, ""),
     Rule("daily_time", Ts(FirstDay, 0), Ts(LastDay, 0), <<>>, MatchExact),
     Rule("nth_weekday", Ts(FirstDay, 1), Ts(LastDay, 1), <<5, 6>>, MatchHigher)}

Leg(side, optType, rule, qty, exp) ==
    [Side |-> side, OptionType |-> optType, StrikeRule |-> rule, Qty |-> qty,
     Expiration |-> exp]

ATM             == [kind |-> "ATM", n |-> 0, field |-> "", add |-> 0]
ATMPlus(x)      == [kind |-> "ATM:", n |-> 0, field |-> "", add |-> x]
LegRef(n, f, x) == [kind |-> "{LEG", n |-> n, field |-> f, add |-> x]
BadRule         == [kind |-> "ABS:100", n |-> 0, field |-> "", add |-> 0]

StrategyChoices ==
    {[DaysToExpiry |-> 1, DateMatchType |-> MatchNearest,
      Legs |-> <<Leg("buy", "call", ATM, 1, 0)>>],
     [DaysToExpiry |-> 2, DateMatchType |-> MatchHigher,
      Legs |-> <<Leg("sell", "call", ATM, 1, 0),
                 Leg("buy", "put", LegRef(1, "STRIKE", 2 * One), 2, 1)>>],
     [DaysToExpiry |-> 1, DateMatchType |-> MatchExact,
      Legs |-> <<Leg("buy", "put", ATMPlus(One), 2, 3),
                 Leg("sell", "put", LegRef(2, "STRIKE", 0), 1, 0)>>],
     [DaysToExpiry |-> 1, DateMatchType |-> MatchNearest,
      Legs |-> <<Leg("sell", "put", BadRule, 1, 0)>>],
     [DaysToExpiry |-> 1, DateMatchType |-> MatchNearest, Legs |-> <<>>]}

Exit(pt, sl, um, md, dte) ==
    [ProfitTargetPct |-> pt, StopLossPct |-> sl, UnderlyingMovePx |-> um,
     MaxDaysInTrade |-> md, ExitByDaysToExpiry |-> dte]

ExitChoices ==
    {Exit(NoValue, NoValue, NoValue, NoValue, NoValue),
     Exit(Some(50), Some(50), NoValue, NoValue, NoValue),
     Exit(Some(0), Some(0), Some(0), Some(0), Some(5)),
     Exit(Some(-10), Some(5), NoValue, NoValue, NoValue),
     Exit(NoValue, NoValue, Some(3 * One), Some(2), NoValue),
     Exit(NoValue, NoValue, NoValue, Some(2), Some(0))}

ExpiryChoices ==
    {[ok |-> TRUE, dates |-> <<Ts(FirstDay + 1, 1), Ts(FirstDay + 3, 0)>>],
     [ok |-> FALSE, dates |-> <<>>]}

\* price curves over the days of the window
Flat(p)         == [k \in 1..NumDays |-> p]
Alternate(p, q) == [k \in 1..NumDays |-> IF k % 2 = 1 THEN p ELSE q]
FirstThen(p, q) == [k \in 1..NumDays |-> IF k <= 1 THEN p ELSE q]

Curve(c, q) == [call |-> c, put |-> q]

CurveChoices ==
    {Curve(Flat(One), Flat(One)),
     Curve(Alternate(One, 3 * One), Alternate(3 * One, One)),
     Curve(FirstThen(2 * One, NoData), FirstThen(NoData, 2 * One)),
     Curve(FirstThen(NoData, One), FirstThen(NoData, 2 * One)),
     Curve(FirstThen(2, 3), FirstThen(2, -1)),
     Curve(Flat(NoData), Flat(NoData))}

NoEarnings == [ok |-> FALSE, dates |-> <<>>]
NoSched    == [dates |-> <<>>, err |-> ""]

Idle ==
    /\ sched = NoSched /\ di = 0 /\ id = 0 /\ trades = <<>> /\ tr = Nil
    /\ bi = 0 /\ total = NoValue /\ result = Nil /\ skipped = {} /\ plan = Nil

NoCall == call = Nil /\ ret = Nil

Init ==
    /\ pc = "idle"
    /\ now = NowA
    /\ bars \in BarChoices
    /\ entry \in EntryChoices
    /\ expiryList \in ExpiryChoices
    /\ earnings = NoEarnings
    /\ strategy \in StrategyChoices
    /\ exitCfg \in ExitChoices
    /\ prov \in CurveChoices
    /\ prior = Nil
    /\ Idle
    /\ NoCall

(***************************************************************************)
(* Run, one step per loop iteration                                        *)
(***************************************************************************)
Inputs == <<bars, entry, expiryList, earnings, strategy, exitCfg, prov>>

hv == AnnualizedVolatility(extractCloses(bars))

Failed(e) == [trades |-> <<>>, err |-> e]

\* Run up to the trade loop: fetch bars and expiries, schedule
RunStart ==
    /\ pc = "idle"
    /\ LET s == ResolveScheduleDates(entry, bars, expiryList.dates, earnings, now)
           e == IF ~expiryList.ok THEN "get relevant expiries error"
                ELSE IF s.err # "" THEN "failed to schedule dates"
                ELSE IF Len(s.dates) = 0 THEN "no dates scheduled"
                ELSE ""
       IN  IF e # ""
           THEN /\ pc' = "done"
                /\ result' = Failed(e)
                /\ UNCHANGED <<sched, di, id>>
           ELSE /\ pc' = "dates"
                /\ sched' = s
                /\ di' = 1
                /\ id' = 1
                /\ UNCHANGED result
    /\ UNCHANGED <<call, ret, now, Inputs, trades, tr, bi, total, prior, skipped, plan>>

\* "break" in place of "continue": the loop over the scheduled dates ends
NextDateIndex_Break(i, n) == n + 1

\* "continue": the loop over the scheduled dates moves on to the next date
NextDateIndex(i, n) == i + 1

\* id++ ahead of the bar lookup: every scheduled date takes an id
IdAfter_Always(i, opened) == i + 1

\* id++ is reached only by a date whose trade was built
IdAfter(i, opened) == IF opened THEN i + 1 ELSE i

\* one iteration of the loop over the scheduled dates, up to simCloseTrade's
\* search for the starting bar
ProcessDate ==
    /\ pc = "dates"
    /\ di <= Len(sched.dates)
    /\ LET dt == sched.dates[di]
           bo == BarOfDay(bars, DayOf(dt))
           o  == PlanStrategy(strategy, dt, bo.bar.Close, expiryList.dates, prov)
           t0 == NewTrade(id, dt, bo.bar.Close, o.legs,
                          OpenPremiumFrom(o.legs, 1, dt, bo.bar.Close, hv, prov, 0))
           nd == [t0 EXCEPT !.CloseDateTime = Some(now),
                            !.ClosePremium = t0.OpenPremium,
                            !.ClosedBy = Tag("no_data", 0)]
           idx == StartIndex(bars, dt)
       IN  IF ~bo.ok
           THEN /\ skipped' = skipped \cup {dt}
                /\ di' = NextDateIndex(di, Len(sched.dates))
                /\ id' = IdAfter(id, FALSE)
                /\ UNCHANGED <<pc, trades, tr, bi, plan>>
           ELSE /\ plan' = [legs |-> o.legs, err |-> o.err, at |-> dt]
                /\ IF o.err # ""
                   THEN /\ skipped' = skipped \cup {dt}
                        /\ di' = NextDateIndex(di, Len(sched.dates))
                        /\ id' = IdAfter(id, FALSE)
                        /\ UNCHANGED <<pc, trades, tr, bi>>
                   ELSE /\ id' = IdAfter(id, TRUE)
                        /\ UNCHANGED skipped
                        /\ IF idx = Len(bars)
                           THEN /\ tr' = nd
                                /\ trades' = Append(trades, nd)
                                /\ di' = di + 1
                                /\ UNCHANGED <<pc, bi>>
                           ELSE /\ tr' = t0
                                /\ bi' = idx + 1
                                /\ pc' = "sim"
                                /\ UNCHANGED <<trades, di>>
    /\ total' = NoValue
    /\ UNCHANGED <<call, ret, now, Inputs, sched, result, prior>>

\* a single expired leg taken for the expiry of the trade
AllExpired_AnyLeg(t, b) == \E i \in DOMAIN t.Legs : ~(b.Date < t.Legs[i].Expiration)

AllExpired(t, b) == \A i \in DOMAIN t.Legs : ~(b.Date < t.Legs[i].Expiration)

\* one iteration of simCloseTrade's loop over the bars
SimBar ==
    /\ pc = "sim"
    /\ bi <= Len(bars)
    /\ LET b  == bars[bi]
           tt == BarTotalFrom(tr.Legs, 1, b, hv, prov, 0)
           t1 == [tr EXCEPT
                     !.HighPremium = IF FGt(tt, @) THEN tt ELSE @,
                     !.LowPremium  = IF FLt(tt, @) THEN tt ELSE @]
           reason == checkExits(t1, tt, b, exitCfg)
           closed == IF reason # NoTag
                     THEN CloseTrade(t1, tt, b.Close, b.Date, reason)
                     ELSE CloseTrade(t1, tt, b.Close, b.Date, Tag("expired", 0))
       IN  /\ total' = Some(tt)
           /\ bi' = bi + 1
           /\ IF reason # NoTag \/ AllExpired(t1, b)
              THEN /\ tr' = closed
                   /\ trades' = Append(trades, closed)
                   /\ di' = di + 1
                   /\ pc' = "dates"
              ELSE /\ tr' = t1
                   /\ UNCHANGED <<trades, di, pc>>
    /\ UNCHANGED <<call, ret, now, Inputs, sched, id, result, prior, skipped, plan>>

\* the end-of-data close recording the last computed total
SimDataEnd_LastTotal ==
    /\ pc = "sim"
    /\ bi > Len(bars)
    /\ LET last   == bars[Len(bars)]
           closed == CloseTrade(tr, IF total.set THEN total.v ELSE tr.OpenPremium,
                                last.Close, last.Date, Tag("data_end", 0))
       IN  /\ tr' = closed
           /\ trades' = Append(trades, closed)
    /\ di' = di + 1
    /\ pc' = "dates"
    /\ UNCHANGED <<call, ret, now, Inputs, sched, id, bi, total, result, prior, skipped, plan>>

\* the end-of-data close taking the first bar of the list for the last
SimDataEnd_FirstBar ==
    /\ pc = "sim"
    /\ bi > Len(bars)
    /\ LET last   == bars[1]
           closed == CloseTrade(tr, tr.HighPremium, last.Close, last.Date,
                                Tag("data_end", 0))
       IN  /\ tr' = closed
           /\ trades' = Append(trades, closed)
    /\ di' = di + 1
    /\ pc' = "dates"
    /\ UNCHANGED <<call, ret, now, Inputs, sched, id, bi, total, result, prior, skipped, plan>>

\* simCloseTrade after the loop over the bars is exhausted
SimDataEnd ==
    /\ pc = "sim"
    /\ bi > Len(bars)
    /\ LET last   == bars[Len(bars)]
           closed == CloseTrade(tr, tr.HighPremium, last.Close, last.Date,
                                Tag("data_end", 0))
       IN  /\ tr' = closed
           /\ trades' = Append(trades, closed)
    /\ di' = di + 1
    /\ pc' = "dates"
    /\ UNCHANGED <<call, ret, now, Inputs, sched, id, bi, total, result, prior, skipped, plan>>

\* Run after the loop over the scheduled dates
RunFinish ==
    /\ pc = "dates"
    /\ di > Len(sched.dates)
    /\ result' = [trades |-> SortByID(trades), err |-> ""]
    /\ pc' = "done"
    /\ UNCHANGED <<call, ret, now, Inputs, sched, di, id, trades, tr, bi, total, prior,
                   skipped, plan>>

\* a second execution of Run: same configuration, same provider, a day later
Rerun ==
    /\ pc = "done"
    /\ prior = Nil
    /\ prior' = result
    /\ now' = AddDays(now, 1)
    /\ pc' = "idle"
    /\ sched' = NoSched /\ di' = 0 /\ id' = 0 /\ trades' = <<>> /\ tr' = Nil
    /\ bi' = 0 /\ total' = NoValue /\ result' = Nil /\ skipped' = {} /\ plan' = Nil
    /\ UNCHANGED <<call, ret, Inputs>>

Next == RunStart \/ ProcessDate \/ SimBar \/ SimDataEnd \/ RunFinish \/ Rerun

Spec == Init /\ [][Next]_vars

(***************************************************************************)
(* Run over strategies whose legs leave a field out                        *)
(***************************************************************************)
\* a leg without side, a leg without option type, a leg without quantity
\* (the zero values of LegSpec)
OmittedChoices ==
    {[DaysToExpiry |-> 1, DateMatchType |-> MatchNearest,
      Legs |-> <<Leg("", "call", ATM, 1, 0)>>],
     [DaysToExpiry |-> 1, DateMatchType |-> MatchNearest,
      Legs |-> <<Leg("buy", "", ATMPlus(One), 1, 0)>>],
     [DaysToExpiry |-> 1, DateMatchType |-> MatchNearest,
      Legs |-> <<Leg("buy", "call", ATM, 0, 0)>>]}

InitOmitted ==
    /\ pc = "idle"
    /\ now = NowA
    /\ bars \in BarChoices
    /\ entry \in EntryChoices
    /\ expiryList \in ExpiryChoices
    /\ earnings = NoEarnings
    /\ strategy \in OmittedChoices
    /\ exitCfg = Exit(NoValue, NoValue, NoValue, NoValue, NoValue)
    /\ prov \in CurveChoices
    /\ prior = Nil
    /\ Idle
    /\ NoCall

SpecOmitted == InitOmitted /\ [][Next]_vars

(***************************************************************************)
(* The scheduler on its own: ResolveScheduleDates applied to an entry      *)
(* rule, a bar set, an expiry list and an earnings answer                  *)
(***************************************************************************)
MaxSchedBars == 2     \* bars handed to the scheduler

Instants == {Ts(d, k) : d \in WindowDays, k \in 0..(TicksPerDay - 1)}

SchedBarChoices ==
    {[i \in DOMAIN SeqOfSet(S) |-> [Date |-> SeqOfSet(S)[i], Close |-> 100 * One]] :
        S \in {D \in SUBSET Instants : Cardinality(D) <= MaxSchedBars}}

SchedRanges ==
    {<<ZeroTime, ZeroTime>>, <<Ts(FirstDay, 0), Ts(LastDay, 0)>>,
     <<Ts(FirstDay + 1, 1), Ts(FirstDay + 2, 1)>>, <<Ts(LastDay, 0), Ts(FirstDay, 0)>>}

SchedModeLists ==
    {<<"daily_time", <<>>>>,
     <<"nth_weekday", <<>>>>, <<"nth_weekday", <<4>>>>, <<"nth_weekday", <<5, 6, 0>>>>,
     <<"nth_month_day", <<>>>>, <<"nth_month_day", <<30, 1>>>>,
     <<"nth_month_day", <<31, 2, 0>>>>,
     <<"earnings_offset", <<>>>>, <<"earnings_offset", <<-1>>>>,
     <<"earnings_offset", <<1>>>>,
     <<"expiry_offset", <<>>>>, <<"expiry_offset", <<-1>>>>, <<"expiry_offset", <<1>>>>}

SchedPolicies == {MatchExact, MatchHigher, MatchLower, MatchNearest, ""}

SchedEarnings ==
    {NoEarnings, [ok |-> TRUE, dates |-> <<Ts(FirstDay + 2, 1), Ts(FirstDay + 1, 0)>>]}

SchedExpiries ==
    {[ok |-> TRUE, dates |-> <<>>],
     [ok |-> TRUE, dates |-> <<Ts(FirstDay + 1, 1), Ts(FirstDay + 3, 0)>>]}

InitSched ==
    /\ pc = "sched_idle"
    /\ now = NowA
    /\ bars \in SchedBarChoices
    /\ \E ml \in SchedModeLists, r \in SchedRanges, pol \in SchedPolicies :
          entry = Rule(ml[1], r[1], r[2], ml[2], pol)
    /\ earnings \in (IF entry.Mode = "earnings_offset" THEN SchedEarnings
                     ELSE {NoEarnings})
    /\ expiryList \in (IF entry.Mode = "expiry_offset" THEN SchedExpiries
                       ELSE {[ok |-> TRUE, dates |-> <<>>]})
    /\ strategy = [DaysToExpiry |-> 0, DateMatchType |-> "", Legs |-> <<>>]
    /\ exitCfg = Exit(NoValue, NoValue, NoValue, NoValue, NoValue)
    /\ prov = Curve(Flat(NoData), Flat(NoData))
    /\ prior = Nil
    /\ Idle
    /\ NoCall

\* a call of ResolveScheduleDates
Schedule ==
    /\ pc = "sched_idle"
    /\ sched' = ResolveScheduleDates(entry, bars, expiryList.dates, earnings, now)
    /\ pc' = "sched_done"
    /\ UNCHANGED <<call, ret, now, Inputs, di, id, trades, tr, bi, total, result, prior,
                   skipped, plan>>

NextSched == Schedule

SpecSched == InitSched /\ [][NextSched]_vars

(***************************************************************************)
(* The library functions called on their own                               *)
(***************************************************************************)
MatchSpan == 5
MaxCands  == 3

\* every list of at most n instants of T, in any order, repeats included
RECURSIVE SeqsUpTo(_, _)
SeqsUpTo(T, n) ==
    IF n = 0 THEN {<<>>}
    ELSE LET shorter == SeqsUpTo(T, n - 1)
         IN  shorter \cup {Append(q, t) : q \in shorter, t \in T}

MatchPolicies == {MatchExact, MatchHigher, MatchLower, MatchNearest, "", "prior"}

MatchCalls ==
    [fn : {"MatchBarDate"}, d : 1..MatchSpan,
     dates : SeqsUpTo(1..MatchSpan, MaxCands), mode : MatchPolicies]

\* no execution of Run or of the scheduler is in progress
NoRun ==
    /\ now = NowA
    /\ bars = <<>>
    /\ entry = Rule("daily_time", ZeroTime, ZeroTime, <<>>, "")
    /\ earnings = NoEarnings
    /\ expiryList = [ok |-> TRUE, dates |-> <<>>]
    /\ strategy = [DaysToExpiry |-> 0, DateMatchType |-> "", Legs |-> <<>>]
    /\ exitCfg = Exit(NoValue, NoValue, NoValue, NoValue, NoValue)
    /\ prov = Curve(Flat(NoData), Flat(NoData))
    /\ prior = Nil
    /\ Idle

\* leg numbers written in a strike expression: below 1, resolved, the leg
\* itself or a later one, and one written with two digits
LegNumbers == {0, 1, 2, 3, 10}

ResolvedLegs ==
    LET l1 == TradeLeg(Leg("sell", "call", ATM, 1, 0), 100 * One, Ts(FirstDay + 1, 0),
                       2 * One)
        l2 == TradeLeg(Leg("buy", "put", ATMPlus(One), 1, 0), 101 * One,
                       Ts(FirstDay + 1, 0), One)
    IN  {<<>>, <<l1>>, <<l1, l2>>}

StrikeCalls ==
    [fn : {"ResolveStrike"},
     rule : {LegRef(n, f, One) : n \in LegNumbers, f \in {"STRIKE", "PREMIUM"}},
     asOfPrice : {100 * One}, legs : ResolvedLegs]

\* spot below, at and above the strike; expiry passed, now and ahead; every
\* kind of volatility
PriceCalls ==
    [fn : {"BlackScholesPrice"}, isCall : BOOLEAN,
     S : {99 * One, 100 * One, 101 * One}, K : {100 * One}, T : {-1, 0, 1},
     sigma : {"positive", "zero", "negative", "nan"}]

\* data.Closest over an ascending list: sort.Search for the first element
\* >= target, then the nearer neighbour, the later one when equally near
Closest(numList, target) ==
    LET n  == Len(numList)
        ge == {k \in 1..n : numList[k] >= target}
        i  == IF ge = {} THEN n + 1 ELSE SetMin(ge)
    IN  IF i = 1 THEN numList[1]
        ELSE IF i = n + 1 THEN numList[n]
        ELSE IF Dist(numList[i - 1], target) < Dist(numList[i], target)
             THEN numList[i - 1] ELSE numList[i]

StackLimit == 3

\* answers of GetContracts: an error, no contract, contracts of the expiry
\* 31 Jan in any order, contracts of another expiry
ContractAnswers ==
    LET e1 == Ts(FirstDay + 1, 0)
        e2 == Ts(FirstDay + 2, 0)
        Contract(e, k) == [ExpiryDate |-> e, Strike |-> k]
    IN  {[err |-> TRUE, contracts |-> <<>>],
         [err |-> FALSE, contracts |-> <<>>],
         [err |-> FALSE, contracts |-> <<Contract(e1, 101 * One), Contract(e1, 99 * One)>>],
         [err |-> FALSE, contracts |-> <<Contract(e1, 102 * One), Contract(e2, 100 * One),
                                         Contract(e1, 101 * One)>>],
         [err |-> FALSE, contracts |-> <<Contract(e2, 100 * One)>>]}

RoundCalls ==
    [fn : {"RoundToNearestStrike"}, answer : ContractAnswers,
     expiryDate : {Ts(FirstDay + 1, 0)},
     asOfPrice : {99 * One, 100 * One, 100 * One + One \div 4, 103 * One},
     frames : {1}]

InitPure ==
    /\ pc = "call_idle"
    /\ NoRun
    /\ \/ call \in MatchCalls
       \/ call \in StrikeCalls
       \/ call \in PriceCalls
       \/ call \in RoundCalls
    /\ ret = Nil

Returns(v) ==
    /\ pc = "call_idle"
    /\ ret' = v
    /\ pc' = "call_done"
    /\ UNCHANGED <<call, now, Inputs, sched, di, id, trades, tr, bi, total, result,
                   prior, skipped, plan>>

CallMatchBarDate ==
    /\ call.fn = "MatchBarDate"
    /\ Returns(MatchBarDate(call.d, call.dates, call.mode))

CallResolveStrike ==
    /\ call.fn = "ResolveStrike"
    /\ Returns(ResolveStrike(call.rule, call.asOfPrice, call.legs))

CallBlackScholesPrice ==
    /\ call.fn = "BlackScholesPrice"
    /\ Returns(BlackScholesPrice(call.isCall, call.S, call.K, call.T, call.sigma))

\* massiveDataProvider.RoundToNearestStrike, one step per activation: the
\* service answers a repeated request the same way
CallRoundToNearestStrike ==
    /\ call.fn = "RoundToNearestStrike"
    /\ LET cs == call.answer.contracts
           strikeList == [k \in 1..Len(SelectSeq(cs,
                              LAMBDA c : c.ExpiryDate = call.expiryDate)) |->
                           SelectSeq(cs, LAMBDA c : c.ExpiryDate = call.expiryDate)[k].Strike]
       IN  IF call.answer.err THEN Returns(call.asOfPrice)
           ELSE IF Len(strikeList) # 0
                THEN Returns(Closest(SortTimes(strikeList), call.asOfPrice))
           ELSE /\ pc = "call_idle"
                /\ IF call.frames < StackLimit
                   THEN /\ call' = [call EXCEPT !.frames = @ + 1]
                        /\ pc' = pc
                   ELSE /\ pc' = "call_fatal"     \* goroutine stack exceeded
                        /\ call' = call
                /\ UNCHANGED <<ret, now, Inputs, sched, di, id, trades, tr, bi, total,
                               result, prior, skipped, plan>>

NextPure ==
    \/ CallMatchBarDate
    \/ CallResolveStrike
    \/ CallBlackScholesPrice
    \/ CallRoundToNearestStrike

SpecPure == InitPure /\ [][NextPure]_vars

(***************************************************************************)
(* simCloseTrade called on its own                                         *)
(***************************************************************************)
\* open dates on the first bar, between two bars, and after every bar
SimOpenDates == {Ts(FirstDay, 0), Ts(FirstDay + 1, 1), Ts(LastDay, 1)}

\* a trade opened as Run opens it, and any bar list, the empty one included
InitSim ==
    /\ pc = "sim_call"
    /\ now = NowA
    /\ bars \in BarChoices \cup {<<>>}
    /\ entry = Rule("daily_time", ZeroTime, ZeroTime, <<>>, "")
    /\ expiryList = [ok |-> TRUE, dates |-> <<Ts(FirstDay + 1, 1), Ts(FirstDay + 3, 0)>>]
    /\ earnings = NoEarnings
    /\ strategy \in StrategyChoices
    /\ exitCfg \in ExitChoices
    /\ prov \in CurveChoices
    /\ prior = Nil
    /\ sched = NoSched /\ di = 0 /\ id = 1 /\ trades = <<>>
    /\ bi = 0 /\ total = NoValue /\ result = Nil /\ skipped = {} /\ plan = Nil
    /\ \E dt \in SimOpenDates :
          LET o == PlanStrategy(strategy, dt, CloseAt(FirstDay, "flat"),
                                expiryList.dates, prov)
          IN  /\ o.err = ""
              /\ tr = NewTrade(1, dt, CloseAt(FirstDay, "flat"), o.legs,
                               OpenPremiumFrom(o.legs, 1, dt, CloseAt(FirstDay, "flat"),
                                               hv, prov, 0))
    /\ NoCall

\* the no-data return leaving the close premium at its zero value
CallSimCloseTrade_ZeroPremium ==
    /\ pc = "sim_call"
    /\ LET idx == StartIndex(bars, tr.OpenDateTime)
           nd  == [tr EXCEPT !.CloseDateTime = Some(now),
                             !.ClosedBy = Tag("no_data", 0)]
       IN  IF idx = Len(bars)
           THEN /\ tr' = nd
                /\ trades' = Append(trades, nd)
                /\ di' = di + 1
                /\ pc' = "dates"
                /\ UNCHANGED bi
           ELSE /\ bi' = idx + 1
                /\ pc' = "sim"
                /\ UNCHANGED <<tr, trades, di>>
    /\ UNCHANGED <<call, ret, now, Inputs, sched, id, total, result, prior, skipped, plan>>

\* simCloseTrade up to its loop: the search for the starting bar
CallSimCloseTrade ==
    /\ pc = "sim_call"
    /\ LET idx == StartIndex(bars, tr.OpenDateTime)
           nd  == [tr EXCEPT !.CloseDateTime = Some(now),
                             !.ClosePremium = tr.OpenPremium,
                             !.ClosedBy = Tag("no_data", 0)]
       IN  IF idx = Len(bars)
           THEN /\ tr' = nd
                /\ trades' = Append(trades, nd)
                /\ di' = di + 1
                /\ pc' = "dates"
                /\ UNCHANGED bi
           ELSE /\ bi' = idx + 1
                /\ pc' = "sim"
                /\ UNCHANGED <<tr, trades, di>>
    /\ UNCHANGED <<call, ret, now, Inputs, sched, id, total, result, prior, skipped, plan>>

NextSim == CallSimCloseTrade \/ SimBar \/ SimDataEnd

SpecSim == InitSim /\ [][NextSim]_vars

(***************************************************************************)
(* Properties of Run                                                       *)
(***************************************************************************)
ClosedByKinds ==
    {"profit_target", "stop_loss", "underlying_move", "max_days",
     "exit_days_before_expiry", "expired", "data_end", "no_data"}

\* C1: every trade in the Result returned by Run is closed: it has a close
\* date-time and its closed-by tag is one of profit_target, stop_loss,
\* underlying_move, max_days, exit_<n>days_before_expiry, expired, data_end,
\* no_data.
C1_ResultTradesClosed ==
    (result # Nil) =>
        \A i \in DOMAIN result.trades :
            /\ result.trades[i].CloseDateTime.set
            /\ result.trades[i].ClosedBy.kind \in ClosedByKinds

\* a Result holding trades closed for two different reasons
C1_Witness ==
    /\ pc = "done"
    /\ result # Nil
    /\ \E i, j \in DOMAIN result.trades :
          result.trades[i].ClosedBy.kind # result.trades[j].ClosedBy.kind

\* C2: after each simulated bar, high-premium >= total >= low-premium.
C2_TotalWithinExtrema ==
    (total.set /\ tr # Nil) =>
        /\ FGe(tr.HighPremium, total.v)
        /\ FGe(total.v, tr.LowPremium)

ExitRules ==
    <<"profit_target", "stop_loss", "underlying_move", "max_days",
      "exit_days_before_expiry">>

\* the condition of exit rule k for trade t at premium cur on bar b; the
\* profit target counts for any target, or only for a target >= 0
RuleHolds(k, t, cur, b, ex, nonNegativeOnly) ==
    CASE k = "profit_target" ->
           /\ ex.ProfitTargetPct.set
           /\ nonNegativeOnly => ex.ProfitTargetPct.v >= 0
           /\ ChangePctGe(t.OpenPremium, cur, ex.ProfitTargetPct.v)
      [] k = "stop_loss" ->
           /\ ex.StopLossPct.set
           /\ ChangePctLe(t.OpenPremium, cur, -ex.StopLossPct.v)
      [] k = "underlying_move" ->
           /\ ex.UnderlyingMovePx.set
           /\ Abs(b.Close - t.UnderlyingAtOpen) >= ex.UnderlyingMovePx.v
      [] k = "max_days" ->
           /\ ex.MaxDaysInTrade.set
           /\ DaysInTrade(t, b) >= ex.MaxDaysInTrade.v
      [] OTHER ->
           /\ ex.ExitByDaysToExpiry.set
           /\ t.Legs # <<>>
           /\ MinDaysToExpiry(t, b) <= ex.ExitByDaysToExpiry.v

FirstRuleHolding(t, cur, b, ex, nonNegativeOnly) ==
    LET S == {i \in DOMAIN ExitRules :
                 RuleHolds(ExitRules[i], t, cur, b, ex, nonNegativeOnly)}
    IN  IF S = {} THEN "" ELSE ExitRules[SetMin(S)]

\* the exit-rule reason reported for the bar just simulated ("" if none)
ReportedReason ==
    IF tr.ClosedBy.kind \in Range(ExitRules) THEN tr.ClosedBy.kind ELSE ""

\* C3 (as stated): on any bar the reason reported is that of the first rule,
\* in the order profit target, stop loss, underlying move, max days, days to
\* expiry, whose condition holds on that bar.
C3_FirstRuleWins_AsStated ==
    (total.set /\ tr # Nil) =>
        ReportedReason = FirstRuleHolding(tr, total.v, bars[bi - 1], exitCfg, FALSE)

\* C3 (amended): the same, the profit-target rule being in force only when
\* its target is not negative; a bar meeting both the profit-target and the
\* stop-loss condition reports the profit target.
C3_FirstRuleWins ==
    (total.set /\ tr # Nil) =>
        ReportedReason = FirstRuleHolding(tr, total.v, bars[bi - 1], exitCfg, TRUE)

\* a bar on which the profit-target and the stop-loss condition both hold
C3_Witness ==
    /\ total.set /\ tr # Nil
    /\ RuleHolds("profit_target", tr, total.v, bars[bi - 1], exitCfg, TRUE)
    /\ RuleHolds("stop_loss", tr, total.v, bars[bi - 1], exitCfg, TRUE)
    /\ tr.ClosedBy.kind = "profit_target"

\* C4: two executions of Run with the same configuration and the same
\* provider answers return identical Results, close date-times included.
C4_SameResult ==
    (pc = "done" /\ prior # Nil) => result = prior

\* C5: the trades of a Result are in ascending id order, the ids are
\* 1, 2, 3, ... without a gap (a skipped date takes no id), and the open
\* date-times ascend with the ids.
C5_IdsConsecutive ==
    (result # Nil) =>
        /\ \A i \in DOMAIN result.trades : result.trades[i].ID = i
        /\ \A i \in DOMAIN result.trades :
              i > 1 => result.trades[i - 1].OpenDateTime
                           < result.trades[i].OpenDateTime

\* a Result with two trades opened after a skipped date
C5_Witness ==
    /\ pc = "done"
    /\ result # Nil
    /\ Len(result.trades) >= 2
    /\ \E d \in skipped : d < result.trades[1].OpenDateTime

\* simCloseTrade's loop for trade t from bar i on, as a function
RECURSIVE SimulateFrom(_, _)
SimulateFrom(t, i) ==
    IF i > Len(bars)
    THEN CloseTrade(t, t.HighPremium, bars[Len(bars)].Close, bars[Len(bars)].Date,
                    Tag("data_end", 0))
    ELSE LET b  == bars[i]
             tt == BarTotalFrom(t.Legs, 1, b, hv, prov, 0)
             t1 == [t EXCEPT
                       !.HighPremium = IF FGt(tt, @) THEN tt ELSE @,
                       !.LowPremium  = IF FLt(tt, @) THEN tt ELSE @]
             reason == checkExits(t1, tt, b, exitCfg)
         IN  IF reason # NoTag THEN CloseTrade(t1, tt, b.Close, b.Date, reason)
             ELSE IF AllExpired(t1, b)
                  THEN CloseTrade(t1, tt, b.Close, b.Date, Tag("expired", 0))
             ELSE SimulateFrom(t1, i + 1)

\* a scheduled date Run skips: no bar of that date, or the plan fails
Unprocessable(dt) ==
    LET bo == BarOfDay(bars, DayOf(dt))
    IN  \/ ~bo.ok
        \/ PlanStrategy(strategy, dt, bo.bar.Close, expiryList.dates, prov).err # ""

\* the trade of scheduled date dt with id tid, built and simulated on its own
TradeOn(dt, tid) ==
    LET bo  == BarOfDay(bars, DayOf(dt))
        o   == PlanStrategy(strategy, dt, bo.bar.Close, expiryList.dates, prov)
        t0  == NewTrade(tid, dt, bo.bar.Close, o.legs,
                        OpenPremiumFrom(o.legs, 1, dt, bo.bar.Close, hv, prov, 0))
        idx == StartIndex(bars, dt)
    IN  IF idx = Len(bars)
        THEN [t0 EXCEPT !.CloseDateTime = Some(now),
                        !.ClosePremium = t0.OpenPremium,
                        !.ClosedBy = Tag("no_data", 0)]
        ELSE SimulateFrom(t0, idx + 1)

Processable == SelectSeq(sched.dates, LAMBDA d : ~Unprocessable(d))

\* C6: a scheduled date with no bar or a failing plan yields no trade and
\* does not fail Run, and the Result is the one of the schedule without the
\* skipped dates: one trade per remaining date, in order, each exactly the
\* trade that date gives on its own.
C6_SkippedDatesLeaveNoTrace ==
    (pc = "done" /\ sched.dates # <<>>) =>
        /\ result.err = ""
        /\ \A i \in DOMAIN result.trades :
              ~Unprocessable(result.trades[i].OpenDateTime)
        /\ result.trades = [k \in DOMAIN Processable |-> TradeOn(Processable[k], k)]

\* a Result with a trade opened on a date scheduled after a skipped date
C6_Witness ==
    /\ pc = "done"
    /\ result # Nil
    /\ \E i, j \in DOMAIN sched.dates :
          /\ i < j
          /\ Unprocessable(sched.dates[i])
          /\ sched.dates[i] \in skipped
          /\ \E k \in DOMAIN result.trades :
                result.trades[k].OpenDateTime = sched.dates[j]

\* leg i of the strategy has no expiration: date matching yields none
ExpirationUnresolved(i, dt) ==
    LET legSpec == strategy.Legs[i]
        offset  == IF legSpec.Expiration # 0 THEN legSpec.Expiration
                   ELSE strategy.DaysToExpiry
    IN  IsZero(ResolveExpiration(dt, offset, expiryList.dates,
                                 strategy.DateMatchType))

\* C7: PlanStrategy returns one resolved leg per LegSpec, in order, or an
\* error and no legs; it returns the error whenever the expiration of some
\* leg cannot be resolved.
C7_PlanAtomic ==
    (plan # Nil) =>
        /\ plan.err = "" =>
              /\ Len(plan.legs) = Len(strategy.Legs)
              /\ \A i \in DOMAIN plan.legs : plan.legs[i].Spec = strategy.Legs[i]
        /\ plan.err # "" => plan.legs = <<>>
        /\ (\E i \in DOMAIN strategy.Legs : ExpirationUnresolved(i, plan.at))
              => plan.err # ""

(***************************************************************************)
(* Properties of ResolveScheduleDates                                      *)
(***************************************************************************)
Returned == pc = "sched_done" /\ sched.err = ""

WindowStart == IF IsZero(entry.Start) THEN AddYears(now, -1) ELSE entry.Start
WindowEnd   == IF IsZero(entry.End) THEN now ELSE entry.End
InWindow(t) == WindowStart <= t /\ t <= WindowEnd

\* C8: the dates the scheduler returns are in ascending order and no two of
\* them fall on the same calendar date, for every mode, policy and bar set.
C8_ScheduleSortedUnique ==
    Returned =>
        \A i, j \in DOMAIN sched.dates :
            i < j => /\ sched.dates[i] < sched.dates[j]
                     /\ DayOf(sched.dates[i]) # DayOf(sched.dates[j])

\* two dates returned where more than two candidates found a bar
C8_Witness ==
    /\ Returned
    /\ entry.Mode = "daily_time"
    /\ entry.DateMatchType = MatchNearest
    /\ WindowEnd - WindowStart >= 2 * TicksPerDay
    /\ Len(sched.dates) = 2

\* C9: every date the scheduler returns is the date of a supplied bar; a
\* candidate that matches no bar is dropped.
C9_ScheduleDatesAreBarDates ==
    Returned =>
        \A i \in DOMAIN sched.dates :
            \E j \in DOMAIN bars : bars[j].Date = sched.dates[i]

\* an exact-match daily schedule in which some candidate found no bar
C9_Witness ==
    /\ Returned
    /\ entry.Mode = "daily_time"
    /\ entry.DateMatchType = MatchExact
    /\ Len(sched.dates) >= 1
    /\ Len(sched.dates) < Len(DailyCandidates(WindowStart, WindowEnd))

\* C10 (as stated): every date returned lies within [Start, End], whatever
\* the policy and the bars.
C10_WithinWindow_AsStated ==
    Returned => \A i \in DOMAIN sched.dates : InWindow(sched.dates[i])

\* C10 (amended): every date returned is the match of an instant within
\* [Start, End]; the date itself lies within [Start, End] when the policy is
\* exact or every supplied bar lies within [Start, End].
C10_WithinWindow ==
    Returned =>
        \A i \in DOMAIN sched.dates :
            /\ \E c \in WindowStart..WindowEnd :
                  findBarDate(c, [k \in DOMAIN bars |-> bars[k].Date],
                              entry.DateMatchType) = sched.dates[i]
            /\ (\/ entry.DateMatchType = MatchExact
                \/ \A k \in DOMAIN bars : InWindow(bars[k].Date))
                   => InWindow(sched.dates[i])

\* an exact-match schedule over bars of which one lies outside [Start, End]
C10_Witness ==
    /\ Returned
    /\ entry.DateMatchType = MatchExact
    /\ \E k \in DOMAIN bars : ~InWindow(bars[k].Date)
    /\ Len(sched.dates) >= 1

ReadsNthList(mode) ==
    mode \in {"nth_weekday", "nth_month_day", "earnings_offset", "expiry_offset"}

Panicked == pc = "sched_done" /\ sched.err = "panic: index out of range"

\* C11: when the entry rule's mode reads the offsets list (nth_weekday,
\* nth_month_day, earnings_offset, expiry_offset) and NthList is empty, the
\* scheduler hands an error value back to its caller: it neither returns a
\* schedule nor aborts with a run-time panic.
C11_EmptyNthListIsAnError ==
    (pc = "sched_done" /\ ReadsNthList(entry.Mode) /\ Len(entry.NthList) = 0)
        => (sched.err # "" /\ ~Panicked)

(***************************************************************************)
(* Properties of MatchBarDate                                              *)
(***************************************************************************)
Matched(modes) ==
    pc = "call_done" /\ call.fn = "MatchBarDate" /\ call.mode \in modes

Earlier == {t \in Range(call.dates) : t < call.d}
Later   == {t \in Range(call.dates) : t > call.d}

\* C12: under the nearest policy, and under any unrecognised policy value,
\* MatchBarDate returns the candidate equal to the target if there is one;
\* otherwise the closer of the latest earlier and the earliest later
\* candidate, the earlier one when both are equally far; and the zero time
\* (none) exactly when the candidate list is empty.
C12_NearestMatch ==
    Matched(MatchPolicies \ {MatchExact, MatchHigher, MatchLower}) =>
        /\ call.d \in Range(call.dates) => ret = call.d
        /\ (call.d \notin Range(call.dates) /\ Earlier # {} /\ Later # {}) =>
               ret = IF call.d - SetMax(Earlier) <= SetMin(Later) - call.d
                     THEN SetMax(Earlier) ELSE SetMin(Later)
        /\ (call.d \notin Range(call.dates) /\ Earlier # {} /\ Later = {}) =>
               ret = SetMax(Earlier)
        /\ (call.d \notin Range(call.dates) /\ Earlier = {} /\ Later # {}) =>
               ret = SetMin(Later)
        /\ IsZero(ret) <=> call.dates = <<>>

\* an unrecognised policy, candidates given latest first, equally far on
\* both sides of the target: the earlier one is returned
C12_Witness ==
    /\ Matched({"prior"})
    /\ Len(call.dates) >= 2 /\ call.dates[1] > call.dates[2]
    /\ call.d \notin Range(call.dates)
    /\ Earlier # {} /\ Later # {}
    /\ call.d - SetMax(Earlier) = SetMin(Later) - call.d
    /\ ret = SetMax(Earlier)

C14_NearestNotFarther ==
    Matched({MatchNearest}) =>
        LET p    == MatchBarDate(call.d, call.dates, MatchLower)
            x    == MatchBarDate(call.d, call.dates, MatchHigher)
            have == {p, x} \ {ZeroTime}
        IN  have # {} =>
               /\ ~IsZero(ret)
               /\ \E r \in have : Dist(ret, call.d) <= Dist(r, call.d)

\* candidates on both sides at different distances, none equal to the
\* target: the closer one is returned
C14_Witness ==
    /\ Matched({MatchNearest})
    /\ call.d \notin Range(call.dates)
    /\ Earlier # {} /\ Later # {}
    /\ call.d - SetMax(Earlier) > SetMin(Later) - call.d
    /\ ret = SetMin(Later)

(***************************************************************************)
(* Properties of ResolveStrike                                             *)
(***************************************************************************)
\* C15: a strike expression referring to {LEGn.STRIKE} or {LEGn.PREMIUM} for
\* a leg number n that is not among the legs already resolved in the planning
\* pass (the leg itself, a later leg, or n below 1) fails with the
\* leg-index-out-of-range error and yields no strike.
C15_UnresolvedLegOutOfRange ==
    (pc = "call_done" /\ call.fn = "ResolveStrike"
        /\ (call.rule.n < 1 \/ call.rule.n > Len(call.legs)))
        => (ret.err = ErrLegIndexOutOfRange /\ ret.strike = 0)

(***************************************************************************)
(* Properties of BlackScholesPrice                                         *)
(***************************************************************************)
\* C17: when the time to expiry is <= 0 or the volatility is <= 0,
\* BlackScholesPrice returns exactly the intrinsic value: max(0, S - K) for a
\* call and max(0, K - S) for a put.
C17_DegenerateIsIntrinsic ==
    (pc = "call_done" /\ call.fn = "BlackScholesPrice"
        /\ (call.T <= 0 \/ call.sigma \in {"zero", "negative"}))
        => ret = IF call.isCall THEN Max0(call.S - call.K)
                 ELSE Max0(call.K - call.S)

(***************************************************************************)
(* Properties of the massive provider's RoundToNearestStrike               *)
(***************************************************************************)
\* C19: RoundToNearestStrike of the massive provider always returns to its
\* caller: the strike closest to asOfPrice among the contracts of the expiry
\* when there are any, asOfPrice unchanged when the lookup fails or finds no
\* contract; it never calls itself again and never exhausts the stack.
C19_RoundAlwaysReturns ==
    call.fn = "RoundToNearestStrike" =>
        LET strikes == {c.Strike : c \in {x \in Range(call.answer.contracts) :
                                             x.ExpiryDate = call.expiryDate}}
        IN  /\ pc # "call_fatal"
            /\ call.frames = 1
            /\ pc = "call_done" =>
                  IF call.answer.err \/ strikes = {} THEN ret = call.asOfPrice
                  ELSE /\ ret \in strikes
                       /\ \A k \in strikes :
                             Dist(ret, call.asOfPrice) <= Dist(k, call.asOfPrice)

(***************************************************************************)
(* Properties of the percentage exit rules                                 *)
(***************************************************************************)
\* (total - open-premium) >= p% of |open-premium| on the bar just simulated
StatedTargetMet ==
    /\ exitCfg.ProfitTargetPct.set
    /\ total.v # NaN
    /\ (total.v - tr.OpenPremium) * 100
           >= exitCfg.ProfitTargetPct.v * Abs(tr.OpenPremium)

\* C16 (as stated): with a profit target of p percent set, the trade exits on
\* profit target at the simulated bar, and only at a bar, whose total
\* satisfies (total - open-premium) >= p% of |open-premium|, for a credit as
\* for a debit open-premium.
C16_ProfitTarget_AsStated ==
    (total.set /\ tr # Nil /\ exitCfg.ProfitTargetPct.set) =>
        (tr.ClosedBy.kind = "profit_target" <=> StatedTargetMet)

\* C16 (amended): the same for a target p >= 0 and an open-premium other
\* than zero.
C16_ProfitTarget ==
    (total.set /\ tr # Nil /\ exitCfg.ProfitTargetPct.set
        /\ exitCfg.ProfitTargetPct.v >= 0 /\ tr.OpenPremium # 0) =>
        (tr.ClosedBy.kind = "profit_target" <=> StatedTargetMet)

\* a credit trade closed at a total that gained a positive target percentage
\* of |open-premium|
C16_Witness ==
    /\ total.set /\ tr # Nil
    /\ exitCfg.ProfitTargetPct.set /\ exitCfg.ProfitTargetPct.v > 0
    /\ tr.OpenPremium < 0
    /\ total.v > tr.OpenPremium
    /\ StatedTargetMet
    /\ tr.ClosedBy.kind = "profit_target"

\* whether the bar just simulated reports what the percentage rules give
\* when the change is measured against the divisor `base`: profit target
\* first (for a target >= 0), then stop loss, else neither
PctRulesAgree(base) ==
    LET change100 == (total.v - tr.OpenPremium) * 100
        expected ==
            IF /\ exitCfg.ProfitTargetPct.set /\ exitCfg.ProfitTargetPct.v >= 0
               /\ total.v # NaN
               /\ change100 >= exitCfg.ProfitTargetPct.v * base
            THEN "profit_target"
            ELSE IF /\ exitCfg.StopLossPct.set
                    /\ total.v # NaN
                    /\ change100 <= (-exitCfg.StopLossPct.v) * base
            THEN "stop_loss"
            ELSE ""
        reported == IF tr.ClosedBy.kind \in {"profit_target", "stop_loss"}
                    THEN tr.ClosedBy.kind ELSE ""
    IN  reported = expected

\* C20 (as stated): the percentage change used by the profit-target and
\* stop-loss rules is (total - open-premium) / max(|open-premium|, 1.0) x 100,
\* so that for |open-premium| < 1 the divisor is 1.0.
C20_DivisorMax_AsStated ==
    (total.set /\ tr # Nil) =>
        PctRulesAgree(IF Abs(tr.OpenPremium) < One THEN One ELSE Abs(tr.OpenPremium))

\* C20 (amended): the divisor is |open-premium|, and 1.0 only when
\* |open-premium| is zero (below 1e-9).
C20_Divisor ==
    (total.set /\ tr # Nil) =>
        PctRulesAgree(IF Abs(tr.OpenPremium) = 0 THEN One ELSE Abs(tr.OpenPremium))

\* an open-premium between 0 and 1 whose bar meets the profit target against
\* |open-premium| and not against 1.0
C20_Witness ==
    /\ total.set /\ tr # Nil
    /\ 0 < Abs(tr.OpenPremium) /\ Abs(tr.OpenPremium) < One
    /\ exitCfg.ProfitTargetPct.set /\ exitCfg.ProfitTargetPct.v > 0
    /\ tr.ClosedBy.kind = "profit_target"
    /\ ~PctRulesAgree(One)

(***************************************************************************)
(* Properties of legs with omitted fields                                  *)
(***************************************************************************)
\* the legs with every omitted side read as buy, every omitted option type
\* as call and every omitted quantity as one contract
WithDefaults(legs) ==
    [i \in DOMAIN legs |->
        [legs[i] EXCEPT !.Spec.Side = IF @ = "" THEN "buy" ELSE @,
                        !.Spec.OptionType = IF @ = "" THEN "call" ELSE @,
                        !.Spec.Qty = IF @ = 0 THEN 1 ELSE @]]

\* C18: a leg whose side, option type or quantity is omitted from the LegSpec
\* is priced and simulated as a buy, a call and one contract: the opening
\* premium and every per-bar total are those of the legs with the defaults
\* filled in.
C18_OmittedFieldsDefault ==
    /\ tr # Nil =>
          tr.OpenPremium = OpenPremiumFrom(WithDefaults(tr.Legs), 1, tr.OpenDateTime,
                                           tr.UnderlyingAtOpen, hv, prov, 0)
    /\ (total.set /\ tr # Nil) =>
          total.v = BarTotalFrom(WithDefaults(tr.Legs), 1, bars[bi - 1], hv, prov, 0)

(***************************************************************************)
(* Properties of simCloseTrade                                             *)
(***************************************************************************)
\* C21: when the loop over the bars is exhausted with no exit rule fired and
\* not all legs expired, the next step closes the trade with closed-by =
\* data_end, close date-time and underlying-at-close of the last bar of the
\* list, and close-premium equal to the trade's high-premium.
C21_DataEnd ==
    [][(pc = "sim" /\ bi > Len(bars)) =>
          /\ tr' = [tr EXCEPT !.ClosedBy = Tag("data_end", 0),
                              !.ClosePremium = tr.HighPremium,
                              !.UnderlyingAtClose = bars[Len(bars)].Close,
                              !.CloseDateTime = Some(bars[Len(bars)].Date)]
          /\ trades' = Append(trades, tr')]_vars

\* a trade closed at the end of the data whose high-premium is not the last
\* total computed
C21_Witness ==
    /\ tr # Nil /\ tr.ClosedBy.kind = "data_end"
    /\ total.set /\ total.v # NaN /\ total.v # tr.HighPremium
    /\ tr.ClosePremium = tr.HighPremium

\* C22: the bar just simulated closes the trade with closed-by = expired
\* exactly when no exit rule fires on it and every leg is at or after its
\* expiration on it (the trade being still open, no earlier bar fired a rule
\* or had all legs expired); the trade then records that bar's total, close
\* and date.
C22_Expired ==
    (total.set /\ tr # Nil) =>
        LET b == bars[bi - 1]
            allAtOrAfter == \A i \in DOMAIN tr.Legs : b.Date >= tr.Legs[i].Expiration
            noRule == FirstRuleHolding(tr, total.v, b, exitCfg, TRUE) = ""
        IN  /\ tr.ClosedBy.kind = "expired" <=> (noRule /\ allAtOrAfter)
            /\ tr.ClosedBy.kind = "expired" =>
                  /\ tr.ClosePremium = total.v
                  /\ tr.UnderlyingAtClose = b.Close
                  /\ tr.CloseDateTime = Some(b.Date)
                  /\ trades[Len(trades)] = tr

\* a two-leg trade with different expirations closed as expired on a bar
\* after its first, exit rules being configured
C22_Witness ==
    /\ total.set /\ tr # Nil
    /\ tr.ClosedBy.kind = "expired"
    /\ Len(tr.Legs) = 2 /\ tr.Legs[1].Expiration # tr.Legs[2].Expiration
    /\ exitCfg.StopLossPct.set
    /\ bars[bi - 1].Date > tr.OpenDateTime

\* C23: the total of the bar just simulated is the sum over the legs of
\* sign(side) x quantity x 100 x the leg's value, the value being the
\* intrinsic value for a leg whose expiration is at or before the bar's date
\* (whatever the provider holds for it), else the provider's price for that
\* date when the call succeeds with a positive price, else the Black-Scholes
\* fallback price.
C23_BarTotal ==
    (total.set /\ tr # Nil) =>
        LET b == bars[bi - 1]
            value(leg) ==
                IF leg.Expiration <= b.Date
                THEN (IF leg.Spec.OptionType = "call" THEN Max0(b.Close - leg.Strike)
                      ELSE Max0(leg.Strike - b.Close))
                ELSE LET a == GetOptionPrice(prov, leg.Strike, leg.Expiration,
                                             leg.Spec.OptionType, b.Date)
                     IN  IF a.ok /\ a.p > 0 THEN a.p
                         ELSE BlackScholesPrice(leg.Spec.OptionType = "call", b.Close,
                                                leg.Strike, leg.Expiration - b.Date, hv)
            part(leg) ==
                FMul(value(leg),
                     (IF leg.Spec.Side = "sell" THEN -1 ELSE 1) * leg.Spec.Qty * 100)
            sum[n \in 0..Len(tr.Legs)] ==
                IF n = 0 THEN 0 ELSE FAdd(sum[n - 1], part(tr.Legs[n]))
        IN  total.v = sum[Len(tr.Legs)]

\* a bar on which one leg is valued at its intrinsic value and the other by
\* the fallback because the provider answered with a non-positive price
C23_Witness ==
    /\ total.set /\ tr # Nil /\ total.v # NaN
    /\ \E i \in DOMAIN tr.Legs : tr.Legs[i].Expiration <= bars[bi - 1].Date
    /\ \E i \in DOMAIN tr.Legs :
          /\ tr.Legs[i].Expiration > bars[bi - 1].Date
          /\ LET a == GetOptionPrice(prov, tr.Legs[i].Strike, tr.Legs[i].Expiration,
                                     tr.Legs[i].Spec.OptionType, bars[bi - 1].Date)
             IN  a.ok /\ a.p <= 0

(***************************************************************************)
(* Properties of the trades Run opens                                      *)
(***************************************************************************)
\* C24: a trade's open premium is the sum over its legs of sign(side) x the
\* open premium the planner stored in the leg x quantity x 100, with sign -1
\* for sell and +1 otherwise, and until the first bar is simulated the
\* trade's high premium and low premium both equal the open premium.
C24_OpenPremium ==
    tr # Nil =>
        LET part(leg) ==
                FMul(leg.OpenPremium,
                     (IF leg.Spec.Side = "sell" THEN -1 ELSE 1) * leg.Spec.Qty * 100)
            sum[n \in 0..Len(tr.Legs)] ==
                IF n = 0 THEN 0 ELSE FAdd(sum[n - 1], part(tr.Legs[n]))
        IN  /\ tr.OpenPremium = sum[Len(tr.Legs)]
            /\ (~total.set /\ tr.ClosedBy.kind \in {"", "no_data"}) =>
                  /\ tr.HighPremium = tr.OpenPremium
                  /\ tr.LowPremium = tr.OpenPremium

\* a trade just opened that sells one leg and buys another for a net credit
C24_Witness ==
    /\ tr # Nil /\ pc = "sim" /\ ~total.set
    /\ \E i, j \in DOMAIN tr.Legs :
          /\ tr.Legs[i].Spec.Side = "sell" /\ tr.Legs[j].Spec.Side = "buy"
          /\ tr.Legs[i].OpenPremium > 0 /\ tr.Legs[j].OpenPremium > 0
    /\ tr.OpenPremium < 0

\* C26: with exit-by-days-to-expiry set to n >= 0, a trade with at least
\* one leg is never closed with the tag expired: a bar on which every leg is
\* at or after its expiration closes the trade with the tag of the
\* days-to-expiry rule or of a rule earlier in the priority order.
C26_NeverExpired ==
    (/\ tr # Nil /\ Len(tr.Legs) >= 1
     /\ exitCfg.ExitByDaysToExpiry.set /\ exitCfg.ExitByDaysToExpiry.v >= 0) =>
        /\ tr.ClosedBy.kind # "expired"
        /\ (total.set /\ \A i \in DOMAIN tr.Legs :
                             tr.Legs[i].Expiration <= bars[bi - 1].Date) =>
              tr.ClosedBy.kind \in {"profit_target", "stop_loss", "underlying_move",
                                    "max_days", "exit_days_before_expiry"}

\* a trade held past its opening bar and closed by the days-to-expiry rule
\* on the bar on which its legs are all at or after expiration
C26_Witness ==
    /\ tr # Nil /\ Len(tr.Legs) >= 1 /\ total.set
    /\ exitCfg.ExitByDaysToExpiry.set /\ exitCfg.ExitByDaysToExpiry.v >= 0
    /\ \A i \in DOMAIN tr.Legs : tr.Legs[i].Expiration <= bars[bi - 1].Date
    /\ bars[bi - 1].Date > tr.OpenDateTime
    /\ tr.ClosedBy = Tag("exit_days_before_expiry", exitCfg.ExitByDaysToExpiry.v)

\* C27: when the bar list is ascending by date, no trade opened by Run is
\* closed with the tag no_data, and the first bar simulated for a trade is
\* the bar whose date is the trade's open date.
C27_SortedBars ==
    (/\ tr # Nil
     /\ \A i, j \in DOMAIN bars : i < j => bars[i].Date <= bars[j].Date) =>
        /\ tr.ClosedBy.kind # "no_data"
        /\ \A k \in DOMAIN trades : trades[k].ClosedBy.kind # "no_data"
        /\ (pc = "sim" /\ ~total.set) =>
              /\ bi \in DOMAIN bars
              /\ bars[bi].Date = tr.OpenDateTime

\* a trade opened on a bar that is not the first of an ascending list,
\* about to have its first bar simulated
C27_Witness ==
    /\ tr # Nil /\ pc = "sim" /\ ~total.set
    /\ \A i, j \in DOMAIN bars : i < j => bars[i].Date <= bars[j].Date
    /\ bi > 1 /\ bars[bi].Date = tr.OpenDateTime

\* C28: for every closed trade, low premium <= open premium <= high premium
\* and low premium <= close premium <= high premium, whichever tag closed
\* the trade.
C28_PremiumOrder ==
    \A k \in DOMAIN trades :
        /\ FLe(trades[k].LowPremium, trades[k].OpenPremium)
        /\ FLe(trades[k].OpenPremium, trades[k].HighPremium)
        /\ FLe(trades[k].LowPremium, trades[k].ClosePremium)
        /\ FLe(trades[k].ClosePremium, trades[k].HighPremium)

C30_TradesHaveLegs ==
    /\ \A k \in DOMAIN trades : Len(trades[k].Legs) >= 1
    /\ (result # Nil /\ Len(strategy.Legs) = 0) => result.trades = <<>>

(***************************************************************************)
(* Properties of simCloseTrade called on its own                           *)
(***************************************************************************)
\* C25: when no bar of the list lies at or after the trade's open date,
\* simCloseTrade returns at once: the trade is closed with the tag no_data
\* and a close premium equal to its open premium, and no bar has been
\* simulated, so that no exit rule was evaluated and the high and low
\* premiums are those of the opening.
C25_NoData ==
    (pc # "sim_call" /\ \A i \in DOMAIN bars : bars[i].Date < tr.OpenDateTime) =>
        /\ tr.ClosedBy = Tag("no_data", 0)
        /\ tr.ClosePremium = tr.OpenPremium
        /\ tr.CloseDateTime.set
        /\ ~total.set /\ bi = 0
        /\ tr.HighPremium = tr.OpenPremium /\ tr.LowPremium = tr.OpenPremium
        /\ trades = <<tr>>

\* a trade opened after the last bar of a non-empty list, with a non-zero
\* open premium and exit rules that hold on any bar, closed as no_data
C25_Witness ==
    /\ pc # "sim_call"
    /\ bars # <<>> /\ \A i \in DOMAIN bars : bars[i].Date < tr.OpenDateTime
    /\ exitCfg.UnderlyingMovePx.set /\ exitCfg.UnderlyingMovePx.v = 0
    /\ tr.OpenPremium # 0
    /\ tr.ClosedBy.kind = "no_data"

====
